---- MODULE Spec2Model ----
(***************************************************************************)
(* Yield-estimation pipeline of renewables-forecast:                       *)
(*   calculate_energy -> lookup_postcode -> get_solar_climate_data ->      *)
(*   calculate_solar_output -> db.commit                                   *)
(* with the two process-wide caches _postcode_cache and _climate_cache.    *)
(*                                                                         *)
(* Encoding of Python values                                               *)
(*   str            sequence of one-character strings (postcodes), or a    *)
(*                  TLA+ string where the code never looks inside it       *)
(*   None           the string "None"                                      *)
(*   latitude, longitude      integer, thousandths of a degree             *)
(*   tilt                     integer, hundredths of a degree              *)
(*   factors, efficiencies    integer, thousandths                         *)
(*   capacity_kwp             integer, tenths of a kWp                     *)
(*   irradiance (kWh/m2/day)  integer, hundredths                          *)
(*   energies (kWh)           integer, hundredths                          *)
(* Specification Spec serves one call at a time: a call of the endpoint    *)
(* calculate_energy, or a direct call of one of the two resolvers. A call  *)
(* is cut at its awaits (client.get of either resolver, db.commit).        *)
(* The pure functions (validate_postcode, calculate_tilt_factor,           *)
(* calculate_solar_output) have specifications of their own, SpecNorm,     *)
(* SpecTilt and SpecCalc, which draw the arguments in `args` and apply the *)
(* function into `retval`. Specification SpecConc runs NumTasks direct     *)
(* resolver calls concurrently on the event loop: a task runs from one     *)
(* await to the next without interruption, and tasks interleave at the     *)
(* awaits.                                                                 *)
(* SpecTime is the two resolvers called directly while the clock          *)
(* advances; SpecDet is the pipeline over upstreams that answer each       *)
(* postcode and each coordinate pair always the same way.                  *)
(***************************************************************************)
EXTENDS Integers, Sequences, FiniteSets, TLC

VARIABLES postcode_cache, climate_cache, db_rows, run, loc_ok, clim_ok,
          args, retval, tasks, writes, now, stored_at, upstream

\* The state of the pipeline, of a pure-function application, and of the
\* concurrent resolver calls of SpecConc; the wall clock in seconds (it
\* moves in SpecTime only) and the time each cache key was first stored;
\* the answers of the two upstreams where they are fixed (SpecDet).
pipeline == <<postcode_cache, climate_cache, db_rows, run, loc_ok, clim_ok>>
pure == <<args, retval>>
conc == <<tasks, writes>>
clock == <<now, stored_at>>
aux == <<pure, conc, now, upstream>>
vars == <<pipeline, stored_at, aux>>

\* Python None where a str is expected, and where a number is expected;
\* a number x that is present is Num(x).
None == "None"
NoneNum == <<>>
Num(x) == <<x>>
Val(o) == o[1]

\* Persisted rows the database may hold before the model stops taking requests.
MaxRows == 1

\* Longest string the normalisation is applied to exhaustively.
MaxLen == 6

\* Concurrent resolver calls of SpecConc.
NumTasks == 3

\* Steps of cache_ttl_postcode seconds the clock of SpecTime advances.
MaxTicks == 2

-----------------------------------------------------------------------------
(* Strings and postcode normalisation *)

\* str.upper() on the characters the model uses.
UpperOf(c) ==
  CASE c = "a" -> "A"
    [] c = "e" -> "E"
    [] c = "g" -> "G"
    [] c = "n" -> "N"
    [] c = "s" -> "S"
    [] c = "u" -> "U"
    [] c = "w" -> "W"
    [] OTHER -> c

\* Variant of StripUpper that forgets .upper().
StripUpper_NoUpper(s) == SelectSeq(s, LAMBDA c : c # " ")

\* postcode.replace(" ", "").upper()
StripUpper(s) ==
  LET t == SelectSeq(s, LAMBDA c : c # " ")
  IN  [i \in 1..Len(t) |-> UpperOf(t[i])]

\* Variant of validate_postcode that upper-cases without removing the spaces.
validate_postcode_NoStrip(v) ==
  LET normalized == [i \in 1..Len(v) |-> UpperOf(v[i])]
      n == Len(normalized)
  IN  IF n >= 5
        THEN SubSeq(normalized, 1, n - 3) \o <<" ">> \o SubSeq(normalized, n - 2, n)
        ELSE normalized

\* CalculationRequest.validate_postcode: strip, upper, one space before the
\* last three characters when at least five characters remain.
validate_postcode(v) ==
  LET normalized == StripUpper(v)
      n == Len(normalized)
  IN  IF n >= 5
        THEN SubSeq(normalized, 1, n - 3) \o <<" ">> \o SubSeq(normalized, n - 2, n)
        ELSE normalized

\* Field(min_length=5, max_length=8) on the raw postcode of a request.
PostcodeMinLength == 5
PostcodeMaxLength == 8
PostcodeFieldOk(v) == Len(v) >= PostcodeMinLength /\ Len(v) <= PostcodeMaxLength

-----------------------------------------------------------------------------
(* Arithmetic helpers *)

Abs(x) == IF x < 0 THEN -x ELSE x
Max(a, b) == IF a >= b THEN a ELSE b

\* n / d rounded to the nearest integer, n >= 0, d > 0. Python's round()
\* rounds the binary value of a float, so which way a decimal tie goes
\* depends on its representation; here a tie rounds up.
RoundDiv(n, d) == (2 * n + d) \div (2 * d)

\* <<q, r>> with a * b = q * c + r and 0 <= r < c, without forming a * b
\* (a, b >= 0, 0 < c < 2^30).
RECURSIVE MulDivMod(_, _, _)
MulDivMod(a, b, c) ==
  IF b = 0 THEN <<0, 0>>
  ELSE LET h   == MulDivMod(a, b \div 2, c)
           q2  == 2 * h[1] + (2 * h[2]) \div c
           r2  == (2 * h[2]) % c
           add == IF b % 2 = 1 THEN a ELSE 0
           r3  == r2 + (add % c)
       IN  <<q2 + (add \div c) + (r3 \div c), r3 % c>>

\* a * b / c rounded to the nearest integer.
RoundMulDiv(a, b, c) ==
  LET h == MulDivMod(a, b, c)
  IN  h[1] + (IF 2 * h[2] >= c THEN 1 ELSE 0)

RECURSIVE SumSeq(_)
SumSeq(s) == IF s = <<>> THEN 0 ELSE s[1] + SumSeq(Tail(s))

-----------------------------------------------------------------------------
(* services/postcode.py *)

Raise(exc) == [tag |-> "raise", exc |-> exc]
Return(value) == [tag |-> "return", value |-> value]

\* class Location
Location(postcode, latitude, longitude, region) ==
  [postcode |-> postcode, latitude |-> latitude, longitude |-> longitude,
   region |-> region]

\* result.get("region") or result.get("admin_district") or "Unknown"
RegionOf(result) ==
  IF result.region # None /\ result.region # "" THEN result.region
  ELSE IF result.admin_district # None /\ result.admin_district # ""
         THEN result.admin_district
         ELSE "Unknown"

\* Location(...) built from data["result"]; an absent key reads as None.
LocationFromResult(postcode, result) ==
  Location(IF result.postcode = <<>> THEN postcode ELSE result.postcode,
           result.latitude, result.longitude, RegionOf(result))

\* Variant of PostcodeResult that raises PostcodeNotFoundError for every
\* status other than 200.
PostcodeResult_ErrorsAsNotFound(postcode, response) ==
  CASE response.kind = "timeout" -> Raise("PostcodeAPIError")
    [] response.kind = "request_error" -> Raise("PostcodeAPIError")
    [] OTHER ->
         IF response.status # 200 THEN Raise("PostcodeNotFoundError")
         ELSE IF response.body = "invalid_json" THEN Raise("ValueError")
         ELSE IF response.body_status # 200 THEN Raise("PostcodeNotFoundError")
         ELSE Return(LocationFromResult(postcode, response.result))

\* lookup_postcode after `await client.get(url)`: what the call returns or
\* raises for the upstream response. Only httpx.TimeoutException and
\* httpx.RequestError are caught; the ValueError of response.json() is not.
PostcodeResult(postcode, response) ==
  CASE response.kind = "timeout" -> Raise("PostcodeAPIError")
    [] response.kind = "request_error" -> Raise("PostcodeAPIError")
    [] OTHER ->
         IF response.status = 404 THEN Raise("PostcodeNotFoundError")
         ELSE IF response.status # 200 THEN Raise("PostcodeAPIError")
         ELSE IF response.body = "invalid_json" THEN Raise("ValueError")
         ELSE IF response.body_status # 200 THEN Raise("PostcodeNotFoundError")
         ELSE Return(LocationFromResult(postcode, response.result))

-----------------------------------------------------------------------------
(* services/climate.py *)

\* f"{x:.2f}" of a coordinate: the sign of x and |x| rounded to hundredths,
\* so that -0.004 formats as "-0.00" and 0.004 as "0.00". The coordinates of
\* the model never end in 5 thousandths (no rounding ties).
FormatCoord(x) == [neg |-> x < 0, hundredths |-> RoundDiv(Abs(x), 10)]

\* Variant of cache_key that leaves the longitude out of the key.
cache_key_LatitudeOnly(latitude, longitude) ==
  <<FormatCoord(Val(latitude)), FormatCoord(0)>>

\* cache_key = f"{latitude:.2f},{longitude:.2f}"
cache_key(latitude, longitude) ==
  <<FormatCoord(Val(latitude)), FormatCoord(Val(longitude))>>

month_order ==
  <<"JAN", "FEB", "MAR", "APR", "MAY", "JUN",
    "JUL", "AUG", "SEP", "OCT", "NOV", "DEC">>

\* days_in_month = [31, 28.25, 31, ...], in hundredths of a day.
days_in_month ==
  <<3100, 2825, 3100, 3000, 3100, 3000, 3100, 3100, 3000, 3100, 3000, 3100>>

\* [monthly_data.get(month, 0.0) for month in month_order]
MonthlyGhi(monthly_data) ==
  [i \in 1..12 |->
     IF month_order[i] \in DOMAIN monthly_data
       THEN monthly_data[month_order[i]]
       ELSE Num(0)]

\* class SolarClimateData; annual_ghi_kwh_m2 in units of 1e-4 kWh/m2.
SolarClimateData(latitude, longitude, monthly_ghi) ==
  [latitude |-> latitude, longitude |-> longitude,
   monthly_ghi_kwh_m2_day |-> monthly_ghi,
   annual_ghi_kwh_m2 |->
     SumSeq([i \in 1..12 |-> monthly_ghi[i] * days_in_month[i]]),
   source |-> "NASA_POWER"]

\* Variant of ClimateResult that rejects a response lacking some month.
ClimateResult_RejectPartial(latitude, longitude, response) ==
  CASE response.kind = "timeout" -> Raise("ClimateAPIError")
    [] response.kind = "request_error" -> Raise("ClimateAPIError")
    [] OTHER ->
         IF response.status # 200 THEN Raise("ClimateAPIError")
         ELSE IF response.body = "invalid_json" THEN Raise("ClimateAPIError")
         ELSE IF response.body = "not_object" THEN Raise("AttributeError")
         ELSE IF \E i \in 1..12 : month_order[i] \notin DOMAIN response.monthly_data
           THEN Raise("ClimateAPIError")
         ELSE LET ghi == MonthlyGhi(response.monthly_data)
              IN  IF \E i \in 1..12 : ghi[i] = NoneNum
                    THEN Raise("TypeError")
                    ELSE Return(SolarClimateData(latitude, longitude,
                                                 [i \in 1..12 |-> Val(ghi[i])]))

\* get_solar_climate_data after `await client.get(url, params=params)`.
\* ValueError (response.json()) is caught and becomes ClimateAPIError; the
\* AttributeError of .get on a non-object and the TypeError of None * days
\* are not caught.
ClimateResult(latitude, longitude, response) ==
  CASE response.kind = "timeout" -> Raise("ClimateAPIError")
    [] response.kind = "request_error" -> Raise("ClimateAPIError")
    [] OTHER ->
         IF response.status # 200 THEN Raise("ClimateAPIError")
         ELSE IF response.body = "invalid_json" THEN Raise("ClimateAPIError")
         ELSE IF response.body = "not_object" THEN Raise("AttributeError")
         ELSE IF DOMAIN response.monthly_data = {} THEN Raise("ClimateAPIError")
         ELSE LET ghi == MonthlyGhi(response.monthly_data)
              IN  IF \E i \in 1..12 : ghi[i] = NoneNum
                    THEN Raise("TypeError")
                    ELSE Return(SolarClimateData(latitude, longitude,
                                                 [i \in 1..12 |-> Val(ghi[i])]))

-----------------------------------------------------------------------------
(* calculators/solar.py *)

\* ORIENTATION_FACTORS.get(panel_orientation.lower(), 0.88)
OrientationFactor(panel_orientation) ==
  CASE panel_orientation = "south" -> 1000
    [] panel_orientation \in {"south-east", "south-west"} -> 970
    [] panel_orientation \in {"east", "west"} -> 880
    [] panel_orientation \in {"north-east", "north-west"} -> 750
    [] panel_orientation = "north" -> 550
    [] OTHER -> 880

\* round(max(0, latitude - 10), 1): thousandths of a degree rounded to
\* tenths, expressed in hundredths.
calculate_optimal_tilt(latitude) == RoundDiv(Max(0, latitude - 10000), 100) * 10

\* Variant of calculate_tilt_factor without the 0.7 floor.
calculate_tilt_factor_NoFloor(tilt, optimal_tilt) ==
  LET deviation == Abs(tilt - optimal_tilt)
  IN  IF deviation = 0 THEN 1000 ELSE RoundDiv(100000 - 5 * deviation, 100)

\* Tilt factor in thousandths from tilts in hundredths of a degree:
\* round(max(0.7, 1.0 - 0.005 * deviation), 3).
calculate_tilt_factor(tilt, optimal_tilt) ==
  LET deviation == Abs(tilt - optimal_tilt)
      penalty == 5 * deviation                \* units of 1e-5
      factor == Max(70000, 100000 - penalty)
  IN  IF deviation = 0 THEN 1000 ELSE RoundDiv(factor, 100)

temperature_coefficient == 960
soiling_losses == 980
cable_losses == 990
mismatch_losses == 990
performance_ratio == 850
HoursPerYear == 8760

\* a * f for an efficiency a in millionths and a factor f in thousandths.
TimesFactor(a, f) == RoundDiv(a * f, 1000)

\* system_efficiency, in millionths, multiplied left to right as the code does.
SystemEfficiency(orientation_factor, tilt_factor, inverter_efficiency, shading_factor) ==
  TimesFactor(TimesFactor(TimesFactor(TimesFactor(TimesFactor(TimesFactor(
    orientation_factor * tilt_factor,
    inverter_efficiency), temperature_coefficient), soiling_losses),
    cable_losses), mismatch_losses), shading_factor)

\* round(capacity_kwp * ghi_per_day * days * system_efficiency * performance_ratio, 2)
MonthlyEnergy(capacity_kwp, ghi_per_day, days, system_efficiency) ==
  RoundMulDiv(capacity_kwp * ghi_per_day * days,
              TimesFactor(system_efficiency, performance_ratio),
              1000000000)

\* Variant of AnnualEnergy that leaves December out of the sum.
AnnualEnergy_SkipLast(monthly_kwh) == SumSeq(SubSeq(monthly_kwh, 1, Len(monthly_kwh) - 1))

\* annual_kwh = sum(monthly_kwh), the sum of the rounded monthly values.
AnnualEnergy(monthly_kwh) == SumSeq(monthly_kwh)

\* Variant of CapacityFactor that takes the hours of a day for those of a year.
CapacityFactor_HoursPerDay(annual_kwh, capacity_kwp) ==
  RoundMulDiv(annual_kwh, 1000, capacity_kwp * 24)

\* round(annual_kwh / (capacity_kwp * 8760), 4), in units of 1e-4.
CapacityFactor(annual_kwh, capacity_kwp) ==
  RoundMulDiv(annual_kwh, 1000, capacity_kwp * HoursPerYear)

\* calculate_solar_output: the SolarOutput it returns, or the exception it
\* raises (None.lower() is an AttributeError, None * float a TypeError).
calculate_solar_output(capacity_kwp, climate_data, latitude, panel_orientation, panel_tilt_degrees, shading_factor, inverter_efficiency) ==
  LET optimal_tilt == calculate_optimal_tilt(latitude)
      tilt == IF panel_tilt_degrees = NoneNum THEN optimal_tilt
              ELSE Val(panel_tilt_degrees)
      orientation_factor == OrientationFactor(panel_orientation)
      tilt_factor == calculate_tilt_factor(tilt, optimal_tilt)
      system_efficiency ==
        SystemEfficiency(orientation_factor, tilt_factor,
                         Val(inverter_efficiency), Val(shading_factor))
      monthly_kwh ==
        [i \in 1..12 |->
           MonthlyEnergy(capacity_kwp, climate_data.monthly_ghi_kwh_m2_day[i],
                         days_in_month[i], system_efficiency)]
      annual_kwh == AnnualEnergy(monthly_kwh)
  IN  IF panel_orientation = None THEN Raise("AttributeError")
      ELSE IF inverter_efficiency = NoneNum THEN Raise("TypeError")
      ELSE IF shading_factor = NoneNum THEN Raise("TypeError")
      ELSE Return(
        [annual_kwh |-> annual_kwh,
         monthly_kwh |-> monthly_kwh,
         capacity_factor |-> CapacityFactor(annual_kwh, capacity_kwp),
         kwh_per_kwp |-> RoundDiv(annual_kwh, capacity_kwp),
         assumptions |->
           [optimal_tilt_degrees |-> optimal_tilt,
            actual_tilt_degrees |-> tilt,
            orientation |-> panel_orientation,
            orientation_factor |-> orientation_factor,
            tilt_factor |-> tilt_factor,
            system_efficiency |-> RoundDiv(system_efficiency, 1000),
            performance_ratio |-> performance_ratio,
            inverter_efficiency |-> Val(inverter_efficiency),
            temperature_coefficient |-> temperature_coefficient,
            soiling_losses |-> 1000 - soiling_losses,
            shading_factor |-> Val(shading_factor),
            climate_source |-> climate_data.source]])

-----------------------------------------------------------------------------
(* Requests, upstream responses and the inputs the model draws *)

\* schemas.SolarSpecs: every Optional field accepts an explicit null.
SolarSpecs(capacity_kwp, panel_orientation, panel_tilt_degrees, shading_factor, inverter_efficiency) ==
  [kind |-> "SolarSpecs", capacity_kwp |-> capacity_kwp,
   panel_orientation |-> panel_orientation,
   panel_tilt_degrees |-> panel_tilt_degrees,
   shading_factor |-> shading_factor,
   inverter_efficiency |-> inverter_efficiency]

\* Field(..., ge=, le=) of SolarSpecs; None passes every Optional field.
InRangeOrNone(o, lo, hi) ==
  IF o = NoneNum THEN TRUE ELSE Val(o) >= lo /\ Val(o) <= hi

SolarSpecsOk(s) ==
  /\ s.capacity_kwp >= 5 /\ s.capacity_kwp <= 500
  /\ s.panel_orientation \in
       {None, "north", "south", "east", "west",
        "south-east", "south-west", "north-east", "north-west"}
  /\ InRangeOrNone(s.panel_tilt_degrees, 0, 9000)
  /\ InRangeOrNone(s.shading_factor, 0, 1000)
  /\ InRangeOrNone(s.inverter_efficiency, 900, 990)

\* schemas.WindSpecs
WindSpecs(rated_power_kw, hub_height_m) ==
  [kind |-> "WindSpecs", rated_power_kw |-> rated_power_kw,
   hub_height_m |-> hub_height_m]

\* 4 kWp with every default; the same with "panel_orientation": null;
\* a north-facing flat array; a 5 kW turbine.
SolarDefault == SolarSpecs(40, "south", NoneNum, Num(1000), Num(960))
SolarNullOrientation == SolarSpecs(40, None, NoneNum, Num(1000), Num(960))
WindDefault == WindSpecs(50, 100)
SystemSpecs == {SolarDefault, SolarNullOrientation, WindDefault}
SystemTypes == {"solar", "wind"}

RawPostcodes ==
  { <<"e", "1", " ", "6", "a", "n">>,
    <<"E", "1", "6", "A", "N">>,
    <<"n", "1", " ", "9", "G", "U">> }

\* Responses of the Location Lookup capability (postcodes.io) to a GET for
\* `normalized`: the transport fails, or an HTTP status arrives with a body.
NoResult ==
  [postcode |-> <<>>, latitude |-> NoneNum, longitude |-> NoneNum,
   region |-> None, admin_district |-> None]

LocResults(normalized) ==
  { [postcode |-> validate_postcode(normalized), latitude |-> Num(51500),
     longitude |-> Num(-4), region |-> "London", admin_district |-> "Westminster"],
    [postcode |-> validate_postcode(normalized), latitude |-> Num(51500),
     longitude |-> Num(4), region |-> None, admin_district |-> "Greenwich"],
    NoResult }

HttpResponse(status, body, body_status, result) ==
  [kind |-> "http", status |-> status, body |-> body,
   body_status |-> body_status, result |-> result]

LocResponses(normalized) ==
  { [kind |-> "timeout"], [kind |-> "request_error"],
    HttpResponse(404, "object", 404, NoResult),
    HttpResponse(500, "object", 500, NoResult),
    HttpResponse(200, "invalid_json", 0, NoResult),
    HttpResponse(200, "object", 404, NoResult) }
  \cup { HttpResponse(200, "object", 200, res) : res \in LocResults(normalized) }

\* Responses of the Climate Data Source (NASA POWER): monthly_data is the
\* object under properties.parameter.ALLSKY_SFC_SW_DWN, keyed by month
\* abbreviation (and "ANN"); an empty object stands for a missing parameter.
GhiProfile == <<70, 130, 230, 360, 470, 510, 490, 420, 290, 170, 90, 60>>

MonthKeys == {month_order[i] : i \in 1..12}

MonthIndex(k) == CHOOSE i \in 1..12 : month_order[i] = k

FullData ==
  [k \in MonthKeys \cup {"ANN"} |->
     IF k = "ANN" THEN Num(274) ELSE Num(GhiProfile[MonthIndex(k)])]

PartialData == [k \in {"JAN", "JUN", "ANN"} |-> FullData[k]]

NullData == [k \in MonthKeys |-> IF k = "FEB" THEN NoneNum ELSE FullData[k]]

EmptyData == [k \in {} |-> NoneNum]

ClimResponse(status, body, monthly_data) ==
  [kind |-> "http", status |-> status, body |-> body, monthly_data |-> monthly_data]

ClimResponses ==
  { [kind |-> "timeout"], [kind |-> "request_error"],
    ClimResponse(500, "object", EmptyData),
    ClimResponse(200, "invalid_json", EmptyData),
    ClimResponse(200, "not_object", EmptyData),
    ClimResponse(200, "object", EmptyData),
    ClimResponse(200, "object", NullData),
    ClimResponse(200, "object", PartialData),
    ClimResponse(200, "object", FullData) }

\* What the upstream did, as the call history of a run records it.
LocResponseTag(response) ==
  IF response.kind # "http" THEN response.kind
  ELSE IF response.status = 404 THEN "http_404"
  ELSE IF response.status # 200 THEN "http_error"
  ELSE IF response.body = "invalid_json" THEN "invalid_json"
  ELSE IF response.body_status # 200 THEN "body_not_found"
  ELSE "success"

ClimResponseTag(response) ==
  IF response.kind # "http" THEN response.kind
  ELSE IF response.status # 200 THEN "http_error"
  ELSE IF response.body # "object" THEN response.body
  ELSE IF DOMAIN response.monthly_data = {} THEN "no_parameter"
  ELSE IF \E k \in DOMAIN response.monthly_data : response.monthly_data[k] = NoneNum
         THEN "null_value"
  ELSE IF MonthKeys \subseteq DOMAIN response.monthly_data THEN "full_data"
  ELSE "partial_data"

\* Coordinates a direct caller of get_solar_climate_data passes.
Latitudes == {51500}
Longitudes == {-4, 3, 4}

-----------------------------------------------------------------------------
(* The call in progress *)

NoLocation == Location(<<>>, NoneNum, NoneNum, None)
NoClimate ==
  [latitude |-> NoneNum, longitude |-> NoneNum, monthly_ghi_kwh_m2_day |-> <<>>,
   annual_ghi_kwh_m2 |-> 0, source |-> None]
NoRequest == [postcode |-> <<>>, system_type |-> None, system_specs |-> WindDefault]
NoOutcome == [tag |-> "none"]

\* entry: the function called from outside; postcode and coords: the
\* arguments lookup_postcode and get_solar_climate_data were called with;
\* *_calls, commits: upstream calls issued, calculator calls and commits of
\* this run; *_returned: the resolver returned a value; *_resp: what the
\* upstream answered, clim_payload: the monthly object it sent.
IdleRun ==
  [pc |-> "idle", entry |-> None, request |-> NoRequest,
   postcode |-> <<>>, coords |-> <<>>,
   location |-> NoLocation, climate_data |-> NoClimate,
   outcome |-> NoOutcome,
   loc_calls |-> 0, clim_calls |-> 0, calc_calls |-> 0, commits |-> 0,
   loc_returned |-> FALSE, clim_returned |-> FALSE, calc_returned |-> FALSE,
   loc_resp |-> None, clim_resp |-> None, clim_payload |-> EmptyData]

\* The call ends: its frame (location, climate_data, the request's
\* postcode) is gone; its outcome and its call history stay until the next
\* call begins.
Done(r, outcome) ==
  [r EXCEPT !.pc = "done", !.outcome = outcome, !.request.postcode = <<>>,
            !.location = NoLocation, !.climate_data = NoClimate]

\* raise HTTPException(status_code=..., detail={"error": ...})
HTTPException(status, error) ==
  [tag |-> "http_error", status |-> status, error |-> error]

\* Variant of CalculateStep that goes on to step 4 when the calculator
\* raised, with an empty result.
CalculateStep_PersistAnyway(r, climate_data) ==
  IF r.request.system_type = "solar"
    THEN IF r.request.system_specs.kind # "SolarSpecs"
           THEN Done(r, HTTPException(400, "BAD_REQUEST"))
           ELSE LET specs == r.request.system_specs
                    out == calculate_solar_output(
                             specs.capacity_kwp, climate_data,
                             Val(r.location.latitude), specs.panel_orientation,
                             specs.panel_tilt_degrees, specs.shading_factor,
                             specs.inverter_efficiency)
                    called == [r EXCEPT !.calc_calls = @ + 1,
                                        !.calc_returned = (out.tag = "return")]
                IN  [called EXCEPT !.pc = "commit_await",
                                   !.climate_data = climate_data,
                                   !.outcome = [tag |-> "solar_output",
                                                value |-> IF out.tag = "return"
                                                            THEN out.value
                                                            ELSE NoOutcome]]
    ELSE Done(r, HTTPException(501, "NOT_IMPLEMENTED"))

\* Variant of CalculateStep that never looks at request.system_type.
CalculateStep_IgnoreSystemType(r, climate_data) ==
  IF r.request.system_specs.kind # "SolarSpecs"
    THEN Done(r, HTTPException(400, "BAD_REQUEST"))
    ELSE LET specs == r.request.system_specs
             out == calculate_solar_output(
                      specs.capacity_kwp, climate_data,
                      Val(r.location.latitude), specs.panel_orientation,
                      specs.panel_tilt_degrees, specs.shading_factor,
                      specs.inverter_efficiency)
             called == [r EXCEPT !.calc_calls = @ + 1,
                                 !.calc_returned = (out.tag = "return")]
         IN  IF out.tag = "raise"
               THEN Done(called, HTTPException(500, "INTERNAL_SERVER_ERROR"))
               ELSE [called EXCEPT !.pc = "commit_await",
                                   !.climate_data = climate_data,
                                   !.outcome = [tag |-> "solar_output",
                                                value |-> out.value]]

\* Step 3 of calculate_energy, up to `await db.commit()`.
CalculateStep(r, climate_data) ==
  IF r.request.system_type = "solar"
    THEN IF r.request.system_specs.kind # "SolarSpecs"
           THEN Done(r, HTTPException(400, "BAD_REQUEST"))
           ELSE LET specs == r.request.system_specs
                    out == calculate_solar_output(
                             specs.capacity_kwp, climate_data,
                             Val(r.location.latitude), specs.panel_orientation,
                             specs.panel_tilt_degrees, specs.shading_factor,
                             specs.inverter_efficiency)
                    called == [r EXCEPT !.calc_calls = @ + 1,
                                        !.calc_returned = (out.tag = "return")]
                IN  IF out.tag = "raise"
                      THEN Done(called, HTTPException(500, "INTERNAL_SERVER_ERROR"))
                      ELSE [called EXCEPT !.pc = "commit_await",
                                          !.climate_data = climate_data,
                                          !.outcome = [tag |-> "solar_output",
                                                       value |-> out.value]]
    ELSE Done(r, HTTPException(501, "NOT_IMPLEMENTED"))

\* Variant of OnClimate without the `except ClimateAPIError` clause.
OnClimate_NoClimateHandler(r, res) ==
  LET r1 == [r EXCEPT !.clim_returned = (res.tag = "return")]
  IN  IF r.entry = "get_solar_climate_data" THEN Done(r1, res)
      ELSE IF res.tag = "raise"
        THEN Done(r1, HTTPException(500, "INTERNAL_SERVER_ERROR"))
        ELSE CalculateStep(r1, res.value)

\* Variant of OnClimate that calls the Climate Data Source a second time
\* after a ClimateAPIError.
OnClimate_RetryOnce(r, res) ==
  LET r1 == [r EXCEPT !.clim_returned = (res.tag = "return")]
  IN  IF r.entry = "get_solar_climate_data" THEN Done(r1, res)
      ELSE IF res.tag = "raise"
        THEN IF res.exc = "ClimateAPIError"
               THEN IF r.clim_calls < 2
                      THEN [r1 EXCEPT !.pc = "climate_await", !.clim_calls = @ + 1]
                      ELSE Done(r1, HTTPException(503, "CLIMATE_API_ERROR"))
               ELSE Done(r1, HTTPException(500, "INTERNAL_SERVER_ERROR"))
        ELSE CalculateStep(r1, res.value)

\* What the caller of get_solar_climate_data does with its result: a direct
\* caller receives it; calculate_energy maps ClimateAPIError to 503, lets
\* the generic handler turn any other exception into 500, and goes on to
\* step 3 with the data.
OnClimate(r, res) ==
  LET r1 == [r EXCEPT !.clim_returned = (res.tag = "return")]
  IN  IF r.entry = "get_solar_climate_data" THEN Done(r1, res)
      ELSE IF res.tag = "raise"
        THEN IF res.exc = "ClimateAPIError"
               THEN Done(r1, HTTPException(503, "CLIMATE_API_ERROR"))
               ELSE Done(r1, HTTPException(500, "INTERNAL_SERVER_ERROR"))
        ELSE CalculateStep(r1, res.value)

\* get_solar_climate_data up to `await client.get`: the key is formatted
\* (a TypeError for None), a hit returns the cached record.
ClimateCall(latitude, longitude, cache) ==
  IF latitude = NoneNum \/ longitude = NoneNum THEN Raise("TypeError")
  ELSE IF cache_key(latitude, longitude) \in DOMAIN cache
    THEN Return(cache[cache_key(latitude, longitude)])
    ELSE [tag |-> "await"]

\* Entering get_solar_climate_data(latitude, longitude).
EnterClimate(r, latitude, longitude, cache) ==
  LET call == ClimateCall(latitude, longitude, cache)
      r1 == [r EXCEPT !.coords = <<latitude, longitude>>]
  IN  IF call.tag = "await"
        THEN [r1 EXCEPT !.pc = "climate_await", !.clim_calls = @ + 1]
        ELSE OnClimate(r1, call)

\* Variant of OnPostcode without the `except PostcodeNotFoundError` clause.
OnPostcode_NoNotFoundHandler(r, res, cache) ==
  LET r1 == [r EXCEPT !.loc_returned = (res.tag = "return")]
  IN  IF r.entry = "lookup_postcode" THEN Done(r1, res)
      ELSE IF res.tag = "raise"
        THEN IF res.exc = "PostcodeAPIError"
               THEN Done(r1, HTTPException(503, "POSTCODE_SERVICE_ERROR"))
               ELSE Done(r1, HTTPException(500, "INTERNAL_SERVER_ERROR"))
        ELSE EnterClimate([r1 EXCEPT !.location = res.value],
                          res.value.latitude, res.value.longitude, cache)

\* What the caller of lookup_postcode does with its result: a direct caller
\* receives it; calculate_energy maps the two postcode errors to 404 and
\* 503, any other exception to 500, and goes on to step 2.
OnPostcode(r, res, cache) ==
  LET r1 == [r EXCEPT !.loc_returned = (res.tag = "return")]
  IN  IF r.entry = "lookup_postcode" THEN Done(r1, res)
      ELSE IF res.tag = "raise"
        THEN IF res.exc = "PostcodeNotFoundError"
               THEN Done(r1, HTTPException(404, "INVALID_POSTCODE"))
             ELSE IF res.exc = "PostcodeAPIError"
               THEN Done(r1, HTTPException(503, "POSTCODE_SERVICE_ERROR"))
               ELSE Done(r1, HTTPException(500, "INTERNAL_SERVER_ERROR"))
        ELSE EnterClimate([r1 EXCEPT !.location = res.value],
                          res.value.latitude, res.value.longitude, cache)

\* Variant of Store that keeps the entry a key already has (dict.setdefault).
Store_KeepFirst(cache, key, value) ==
  IF key \in DOMAIN cache THEN cache ELSE (key :> value) @@ cache

\* _postcode_cache[normalized] = location; _climate_cache[cache_key] = climate_data
Store(cache, key, value) == (key :> value) @@ cache

\* Variant of CacheAfterLookup that remembers a not-found answer as an
\* entry without coordinates.
CacheAfterLookup_NegativeEntry(cache, postcode, res) ==
  IF res.tag = "return" THEN Store(cache, StripUpper(postcode), res.value)
  ELSE IF res.exc = "PostcodeNotFoundError"
    THEN Store(cache, StripUpper(postcode),
               Location(postcode, NoneNum, NoneNum, "Unknown"))
    ELSE cache

\* _postcode_cache when lookup_postcode ends: the store is reached only
\* when no exception was raised.
CacheAfterLookup(cache, postcode, res) ==
  IF res.tag = "return" THEN Store(cache, StripUpper(postcode), res.value)
  ELSE cache

\* Variant of PostcodeCall that treats an entry older than
\* cache_ttl_postcode as absent.
PostcodeCall_Expiring(postcode, cache) ==
  IF StripUpper(postcode) \in DOMAIN cache
       /\ now - stored_at.loc[StripUpper(postcode)] <= 7776000
    THEN Return(cache[StripUpper(postcode)])
    ELSE [tag |-> "await"]

\* lookup_postcode up to `await client.get`: normalise, then the cache.
PostcodeCall(postcode, cache) ==
  IF StripUpper(postcode) \in DOMAIN cache
    THEN Return(cache[StripUpper(postcode)])
    ELSE [tag |-> "await"]

\* Entering lookup_postcode(postcode).
EnterPostcode(r, postcode, pcache, ccache) ==
  LET call == PostcodeCall(postcode, pcache)
      r1 == [r EXCEPT !.postcode = postcode]
  IN  IF call.tag = "await"
        THEN [r1 EXCEPT !.pc = "lookup_await", !.loc_calls = @ + 1]
        ELSE OnPostcode(r1, call, ccache)

-----------------------------------------------------------------------------
(* History of successful resolver calls *)

\* A string with its spaces dropped and its letters lower-cased: two strings
\* differ only in letter case or spaces exactly when they fold alike.
LowerOf(c) ==
  CASE c = "A" -> "a"
    [] c = "E" -> "e"
    [] c = "G" -> "g"
    [] c = "N" -> "n"
    [] c = "S" -> "s"
    [] c = "U" -> "u"
    [] c = "W" -> "w"
    [] OTHER -> c

Fold(s) ==
  LET t == SelectSeq(s, LAMBDA c : c # " ")
  IN  [i \in 1..Len(t) |-> LowerOf(t[i])]

\* A coordinate rounded to 2 decimal places, as a number of hundredths.
Round2(x) == IF x < 0 THEN -RoundDiv(-x, 10) ELSE RoundDiv(x, 10)

Round2Pair(coords) == <<Round2(Val(coords[1])), Round2(Val(coords[2]))>>

\* The time each key of a cache was first stored.
FirstStored(cache, at) ==
  [k \in DOMAIN cache |-> IF k \in DOMAIN at THEN at[k] ELSE now]

History(r) ==
  /\ loc_ok' = IF r.loc_returned THEN loc_ok \cup {Fold(r.postcode)} ELSE loc_ok
  /\ clim_ok' = IF r.clim_returned THEN clim_ok \cup {Round2Pair(r.coords)} ELSE clim_ok
  /\ stored_at' = [loc |-> FirstStored(postcode_cache', stored_at.loc),
                   clim |-> FirstStored(climate_cache', stored_at.clim)]

-----------------------------------------------------------------------------
(* Actions *)

\* A task of SpecConc: the resolver it runs (fn) with its argument, whether
\* it checked the cache before any task had stored into it (early), the
\* upstream calls it issued, and what it returned or raised.
IdleTask ==
  [pc |-> "idle", fn |-> None, postcode |-> <<>>, coords |-> <<>>,
   early |-> FALSE, calls |-> 0, outcome |-> NoOutcome]

Tasks == 1..NumTasks

Resolvers == {"lookup_postcode", "get_solar_climate_data"}

\* Both caches empty, no row, no call in progress.
PipelineIdle ==
  /\ postcode_cache = <<>>
  /\ climate_cache = <<>>
  /\ db_rows = 0
  /\ run = IdleRun
  /\ loc_ok = {}
  /\ clim_ok = {}
  /\ now = 0
  /\ stored_at = [loc |-> <<>>, clim |-> <<>>]

\* No pure function applied; the upstreams answer as they like.
NoUpstream == [loc |-> <<>>, clim |-> <<>>]
PureIdle == args = None /\ retval = NoOutcome /\ upstream = NoUpstream

\* No task started; per cache, the stores so far and the task that stored last.
ConcIdle ==
  /\ tasks = [t \in Tasks |-> IdleTask]
  /\ writes = [f \in Resolvers |-> [count |-> 0, last |-> 0]]

Init == PipelineIdle /\ PureIdle /\ ConcIdle

Free == run.pc \in {"idle", "done"}

\* POST /calculate: the request passed validation; calculate_energy runs
\* to its first await, or to its end.
CalculateEnergy(raw, system_type, system_specs) ==
  /\ Free
  /\ db_rows < MaxRows
  /\ PostcodeFieldOk(raw)
  /\ IF system_specs.kind = "SolarSpecs" THEN SolarSpecsOk(system_specs) ELSE TRUE
  /\ LET request == [postcode |-> validate_postcode(raw),
                     system_type |-> system_type,
                     system_specs |-> system_specs]
         r0 == [IdleRun EXCEPT !.entry = "calculate_energy", !.request = request]
     IN  run' = EnterPostcode(r0, request.postcode, postcode_cache, climate_cache)
  /\ UNCHANGED <<postcode_cache, climate_cache, db_rows, aux>>
  /\ History(run')

\* A direct call lookup_postcode(raw).
LookupPostcode(raw) ==
  /\ Free
  /\ run' = EnterPostcode([IdleRun EXCEPT !.entry = "lookup_postcode"],
                          raw, postcode_cache, climate_cache)
  /\ UNCHANGED <<postcode_cache, climate_cache, db_rows, aux>>
  /\ History(run')

\* A direct call get_solar_climate_data(latitude, longitude).
GetSolarClimateData(latitude, longitude) ==
  /\ Free
  /\ run' = EnterClimate([IdleRun EXCEPT !.entry = "get_solar_climate_data"],
                         Num(latitude), Num(longitude), climate_cache)
  /\ UNCHANGED <<postcode_cache, climate_cache, db_rows, aux>>
  /\ History(run')

\* The Location Lookup answers: lookup_postcode resumes, stores a success
\* under the normalised postcode, and its caller goes on.
PostcodeAnswers(response) ==
  /\ run.pc = "lookup_await"
  /\ LET res == PostcodeResult(run.postcode, response)
         r1 == [run EXCEPT !.loc_resp = LocResponseTag(response)]
     IN  /\ postcode_cache' = CacheAfterLookup(postcode_cache, run.postcode, res)
         /\ run' = OnPostcode(r1, res, climate_cache)
  /\ UNCHANGED <<climate_cache, db_rows, aux>>
  /\ History(run')

\* ... with any of the answers the Location Lookup can give.
PostcodeResponse ==
  /\ run.pc = "lookup_await"
  /\ \E response \in LocResponses(StripUpper(run.postcode)) : PostcodeAnswers(response)

\* The Climate Data Source answers: get_solar_climate_data resumes, stores
\* a success under the cache key, and its caller goes on.
ClimateResponse(response) ==
  /\ run.pc = "climate_await"
  /\ LET res == ClimateResult(run.coords[1], run.coords[2], response)
         r1 == [run EXCEPT !.clim_resp = ClimResponseTag(response),
                           !.clim_payload = IF response.kind = "http"
                                              THEN response.monthly_data
                                              ELSE EmptyData]
     IN  /\ climate_cache' =
               IF res.tag = "return"
                 THEN Store(climate_cache, cache_key(run.coords[1], run.coords[2]),
                            res.value)
                 ELSE climate_cache
         /\ run' = OnClimate(r1, res)
  /\ UNCHANGED <<postcode_cache, db_rows, aux>>
  /\ History(run')

\* Step 4 and 5: db.commit() and db.refresh() succeed (one database step),
\* the response is built and returned.
CommitDone ==
  /\ run.pc = "commit_await"
  /\ db_rows' = db_rows + 1
  /\ run' = Done([run EXCEPT !.commits = @ + 1],
                 [tag |-> "response", status |-> 200,
                  results |-> run.outcome.value])
  /\ UNCHANGED <<postcode_cache, climate_cache, loc_ok, clim_ok, stored_at, aux>>

\* db.commit() raises: the generic handler answers 500.
CommitFailed ==
  /\ run.pc = "commit_await"
  /\ run' = Done(run, HTTPException(500, "INTERNAL_SERVER_ERROR"))
  /\ UNCHANGED <<postcode_cache, climate_cache, db_rows, loc_ok, clim_ok, stored_at, aux>>

Next ==
  \/ \E raw \in RawPostcodes, t \in SystemTypes, s \in SystemSpecs :
       CalculateEnergy(raw, t, s)
  \/ \E raw \in RawPostcodes : LookupPostcode(raw)
  \/ \E lat \in Latitudes, lon \in Longitudes : GetSolarClimateData(lat, lon)
  \/ PostcodeResponse
  \/ \E response \in ClimResponses : ClimateResponse(response)
  \/ CommitDone
  \/ CommitFailed

Spec == Init /\ [][Next]_vars

-----------------------------------------------------------------------------
(* Direct resolver calls while time passes *)

\* Settings.cache_ttl_climate_data (30 days) and Settings.cache_ttl_postcode
\* (90 days), in seconds. No code reads them.
cache_ttl_climate_data == 2592000
cache_ttl_postcode == 7776000

\* Time passes: neither resolver nor anything else in the process looks at
\* the clock or touches the caches.
Tick ==
  /\ Free
  /\ now < MaxTicks * cache_ttl_postcode
  /\ now' = now + cache_ttl_postcode
  /\ UNCHANGED <<pipeline, stored_at, pure, conc, upstream>>

NextTime ==
  \/ \E raw \in RawPostcodes : LookupPostcode(raw)
  \/ \E lat \in Latitudes, lon \in Longitudes : GetSolarClimateData(lat, lon)
  \/ PostcodeResponse
  \/ \E response \in ClimResponses : ClimateResponse(response)
  \/ Tick

SpecTime == Init /\ [][NextTime]_vars

-----------------------------------------------------------------------------
(* calculate_solar_output applied to arguments within the declared bounds *)

Orientations ==
  {"north", "south", "east", "west",
   "south-east", "south-west", "north-east", "north-west"}

\* Monthly objects the Climate Data Source can send besides FullData and
\* PartialData: the annual figure alone, and a desert profile.
AnnualOnlyData == [k \in {"ANN"} |-> FullData[k]]
SunnyData ==
  [k \in MonthKeys \cup {"ANN"} |->
     IF k = "ANN" THEN Num(650) ELSE Num(2 * GhiProfile[MonthIndex(k)] - 100)]

CalcPayloads == {FullData, PartialData, AnnualOnlyData, SunnyData}

\* Capacity 0.5, 4 and 50 kWp; tilt unset, flat, optimal for 51.5 N, 0.05
\* degrees off it, vertical; shading 0, 0.5, 1; inverter 0.90, 0.96, 0.99;
\* latitudes 5 N, 51.5 N and 60.86 N.
CalcCapacities == {5, 40, 500}
CalcTilts == {NoneNum, Num(0), Num(4150), Num(4155), Num(9000)}
CalcShadings == {0, 500, 1000}
CalcInverters == {900, 960, 990}
CalcLatitudes == {5000, 51500, 60860}

CalcArgs ==
  [fn : {"calculate_solar_output"},
   capacity_kwp : CalcCapacities, payload : CalcPayloads,
   latitude : CalcLatitudes, panel_orientation : Orientations,
   panel_tilt_degrees : CalcTilts, shading_factor : CalcShadings,
   inverter_efficiency : CalcInverters]

\* The ClimateRecord get_solar_climate_data returns for a monthly object.
RecordOf(latitude, payload) ==
  ClimateResult(Num(latitude), Num(4), ClimResponse(200, "object", payload)).value

InitCalc ==
  /\ PipelineIdle
  /\ ConcIdle
  /\ upstream = NoUpstream
  /\ args \in CalcArgs
  /\ retval = NoOutcome

\* calculate_solar_output(capacity_kwp, climate_data, latitude, ...)
CalculateSolarOutput ==
  /\ retval = NoOutcome
  /\ retval' = calculate_solar_output(
                 args.capacity_kwp, RecordOf(args.latitude, args.payload),
                 args.latitude, args.panel_orientation, args.panel_tilt_degrees,
                 Num(args.shading_factor), Num(args.inverter_efficiency))
  /\ UNCHANGED <<pipeline, conc, clock, upstream, args>>

NextCalc == CalculateSolarOutput

SpecCalc == InitCalc /\ [][NextCalc]_vars

-----------------------------------------------------------------------------
(* calculate_tilt_factor applied on the grid of hundredths of a degree *)

\* panel_tilt_degrees: Field(ge=0, le=90), every hundredth of a degree.
TiltGrid == 0 .. (90 * 100)

\* Latitudes 5 N (optimal tilt 0), 51.5 N (41.5) and 60.86 N (50.9).
TiltLatitudes == {5000, 51500, 60860}

TiltArgs == [fn : {"calculate_tilt_factor"}, tilt : TiltGrid, latitude : TiltLatitudes]

InitTilt ==
  /\ PipelineIdle
  /\ ConcIdle
  /\ upstream = NoUpstream
  /\ args \in TiltArgs
  /\ retval = NoOutcome

\* calculate_tilt_factor(tilt, calculate_optimal_tilt(latitude))
CalculateTiltFactor ==
  /\ retval = NoOutcome
  /\ retval' = Return(calculate_tilt_factor(args.tilt,
                                            calculate_optimal_tilt(args.latitude)))
  /\ UNCHANGED <<pipeline, conc, clock, upstream, args>>

NextTilt == CalculateTiltFactor

SpecTilt == InitTilt /\ [][NextTilt]_vars

-----------------------------------------------------------------------------
(* validate_postcode applied to strings, and to its own result *)

NormAlphabet == {"a", "A", "1", " "}

NormExamples ==
  { <<"s", "w", "1", "a", "1", "a", "a">>,
    <<"S", "W", "1", "A", " ", "1", "A", "A">>,
    <<" ", "s", "W", " ", "1", "a", "1", " ", "A", "a", " ">> }

\* Every string over the alphabet up to MaxLen characters, and the examples.
NormStrings ==
  UNION {[1..k -> NormAlphabet] : k \in 0..MaxLen} \cup NormExamples

\* Strings that differ from v only in letter case or spaces.
CaseSpaceVariants(v) ==
  {Fold(v), StripUpper_NoUpper(v), <<" ">> \o v \o <<" ">>}

NormArgs ==
  UNION {[fn : {"validate_postcode"}, v : {x}, w : CaseSpaceVariants(x)] :
           x \in NormStrings}

InitNorm ==
  /\ PipelineIdle
  /\ ConcIdle
  /\ upstream = NoUpstream
  /\ args \in NormArgs
  /\ retval = NoOutcome

\* validate_postcode(v), and validate_postcode(w) for the variant w.
Normalize ==
  /\ retval = NoOutcome
  /\ retval' = [tag |-> "return", value |-> validate_postcode(args.v),
                of_variant |-> validate_postcode(args.w)]
  /\ UNCHANGED <<pipeline, conc, clock, upstream, args>>

\* validate_postcode applied to the postcode it returned.
NormalizeAgain ==
  /\ retval.tag = "return"
  /\ retval' = [tag |-> "again", value |-> validate_postcode(retval.value),
                first |-> retval.value]
  /\ UNCHANGED <<pipeline, conc, clock, upstream, args>>

NextNorm == Normalize \/ NormalizeAgain

SpecNorm == InitNorm /\ [][NextNorm]_vars

-----------------------------------------------------------------------------
(* Concurrent direct calls of the two resolvers *)

\* Two spellings of one postcode, and two coordinate pairs with one cache
\* key ("51.50,0.00"); per upstream one failure and two different successes.
ConcPostcodes == {<<"e", "1", " ", "6", "a", "n">>, <<"E", "1", "6", "A", "N">>}
ConcLongitudes == {3, 4}

ConcLocResponses(normalized) ==
  {r \in LocResponses(normalized) :
     LocResponseTag(r) = "http_404"
       \/ (LocResponseTag(r) = "success" /\ r.result # NoResult)}

ConcClimResponses ==
  {r \in ClimResponses : ClimResponseTag(r) \in {"timeout", "full_data", "partial_data"}}

InitConc == Init

\* Task t enters lookup_postcode(raw) and runs to its `await client.get`,
\* or returns the cached Location.
ConcLookupPostcode(t, raw) ==
  /\ tasks[t].pc = "idle"
  /\ LET call == PostcodeCall(raw, postcode_cache)
         t1 == [tasks[t] EXCEPT !.fn = "lookup_postcode", !.postcode = raw,
                                !.early = (writes["lookup_postcode"].count = 0)]
     IN  tasks' = [tasks EXCEPT ![t] =
                     IF call.tag = "await"
                       THEN [t1 EXCEPT !.pc = "await", !.calls = @ + 1]
                       ELSE [t1 EXCEPT !.pc = "done", !.outcome = call]]
  /\ UNCHANGED <<pipeline, pure, clock, upstream, writes>>

\* The Location Lookup answers task t: a success is stored and returned.
ConcPostcodeResponse(t) ==
  /\ tasks[t].pc = "await"
  /\ tasks[t].fn = "lookup_postcode"
  /\ \E response \in ConcLocResponses(StripUpper(tasks[t].postcode)) :
     LET res == PostcodeResult(tasks[t].postcode, response)
     IN  /\ postcode_cache' =
               CacheAfterLookup(postcode_cache, tasks[t].postcode, res)
         /\ writes' =
               IF res.tag = "return"
                 THEN [writes EXCEPT !["lookup_postcode"] =
                         [count |-> @.count + 1, last |-> t]]
                 ELSE writes
         /\ tasks' = [tasks EXCEPT ![t].pc = "done", ![t].outcome = res]
  /\ UNCHANGED <<climate_cache, db_rows, run, loc_ok, clim_ok, pure, clock, upstream>>

\* Task t enters get_solar_climate_data(latitude, longitude) and runs to
\* its `await client.get`, or returns the cached record.
ConcGetSolarClimateData(t, latitude, longitude) ==
  /\ tasks[t].pc = "idle"
  /\ LET call == ClimateCall(Num(latitude), Num(longitude), climate_cache)
         t1 == [tasks[t] EXCEPT !.fn = "get_solar_climate_data",
                                !.coords = <<Num(latitude), Num(longitude)>>,
                                !.early = (writes["get_solar_climate_data"].count = 0)]
     IN  tasks' = [tasks EXCEPT ![t] =
                     IF call.tag = "await"
                       THEN [t1 EXCEPT !.pc = "await", !.calls = @ + 1]
                       ELSE [t1 EXCEPT !.pc = "done", !.outcome = call]]
  /\ UNCHANGED <<pipeline, pure, clock, upstream, writes>>

\* The Climate Data Source answers task t: a success is stored and returned.
ConcClimateResponse(t, response) ==
  /\ tasks[t].pc = "await"
  /\ tasks[t].fn = "get_solar_climate_data"
  /\ LET res == ClimateResult(tasks[t].coords[1], tasks[t].coords[2], response)
     IN  /\ climate_cache' =
               IF res.tag = "return"
                 THEN Store(climate_cache,
                            cache_key(tasks[t].coords[1], tasks[t].coords[2]),
                            res.value)
                 ELSE climate_cache
         /\ writes' =
               IF res.tag = "return"
                 THEN [writes EXCEPT !["get_solar_climate_data"] =
                         [count |-> @.count + 1, last |-> t]]
                 ELSE writes
         /\ tasks' = [tasks EXCEPT ![t].pc = "done", ![t].outcome = res]
  /\ UNCHANGED <<postcode_cache, db_rows, run, loc_ok, clim_ok, pure, clock, upstream>>

NextConc ==
  \/ \E t \in Tasks, raw \in ConcPostcodes : ConcLookupPostcode(t, raw)
  \/ \E t \in Tasks : ConcPostcodeResponse(t)
  \/ \E t \in Tasks, lat \in Latitudes, lon \in ConcLongitudes :
       ConcGetSolarClimateData(t, lat, lon)
  \/ \E t \in Tasks, response \in ConcClimResponses : ConcClimateResponse(t, response)

SpecConc == InitConc /\ [][NextConc]_vars

-----------------------------------------------------------------------------
(* The pipeline over deterministic upstreams *)

\* The normalised postcodes lookup_postcode asks the Location Lookup for.
DetKeys == {StripUpper(raw) : raw \in RawPostcodes}

\* A deterministic Location Lookup answers each postcode with a Location at
\* 51.5 N and one of three longitudes; a deterministic Climate Data Source
\* answers each longitude with the full record, the partial one, or a timeout.
DetLocResponse(normalized, longitude) ==
  HttpResponse(200, "object", 200,
               [postcode |-> validate_postcode(normalized), latitude |-> Num(51500),
                longitude |-> Num(longitude), region |-> "London",
                admin_district |-> "Westminster"])

DetClimResponses ==
  {r \in ClimResponses : ClimResponseTag(r) \in {"timeout", "full_data", "partial_data"}}

DetUpstreams ==
  {[loc |-> [k \in DetKeys |-> DetLocResponse(k, lons[k])], clim |-> c] :
     lons \in [DetKeys -> Longitudes], c \in [Longitudes -> DetClimResponses]}

InitDet ==
  /\ PipelineIdle
  /\ ConcIdle
  /\ args = None
  /\ retval = NoOutcome
  /\ upstream \in DetUpstreams

\* The Location Lookup answers as it always does for this postcode.
DetPostcodeResponse ==
  /\ run.pc = "lookup_await"
  /\ PostcodeAnswers(upstream.loc[StripUpper(run.postcode)])

\* The Climate Data Source answers as it always does for these coordinates.
DetClimateResponse ==
  /\ run.pc = "climate_await"
  /\ ClimateResponse(upstream.clim[Val(run.coords[2])])

NextDet ==
  \/ \E raw \in RawPostcodes : CalculateEnergy(raw, "solar", SolarDefault)
  \/ DetPostcodeResponse
  \/ DetClimateResponse
  \/ CommitDone
  \/ CommitFailed

SpecDet == InitDet /\ [][NextDet]_vars

-----------------------------------------------------------------------------
(* Outcomes of calculate_energy at the HTTP boundary *)

LocationNotFound == HTTPException(404, "INVALID_POSTCODE")
LocationServiceUnavailable == HTTPException(503, "POSTCODE_SERVICE_ERROR")
ClimateApiFailure == HTTPException(503, "CLIMATE_API_ERROR")
UnsupportedSystemType == HTTPException(501, "NOT_IMPLEMENTED")
InternalFailure == HTTPException(500, "INTERNAL_SERVER_ERROR")

Pipeline == run.entry = "calculate_energy"
PipelineDone == Pipeline /\ run.pc = "done"

LocNotFoundTags == {"http_404", "body_not_found"}
LocUnavailableTags == {"timeout", "request_error", "http_error"}
ClimUnavailableTags == {"timeout", "request_error", "http_error", "no_parameter"}
ClimDataTags == {"full_data", "partial_data"}

-----------------------------------------------------------------------------
(* C1 *)

\* C1: a request whose location lookup reports not-found ends with the
\* LocationNotFound outcome; in that run get_solar_climate_data is never
\* entered, the Climate Data Source is never called, calculate_solar_output
\* is never invoked and nothing is committed.
C1_NotFoundStopsPipeline ==
  (Pipeline /\ run.loc_resp \in LocNotFoundTags) =>
     /\ run.pc = "done"
     /\ run.outcome = LocationNotFound
     /\ run.coords = <<>>
     /\ run.clim_calls = 0
     /\ run.calc_calls = 0
     /\ run.commits = 0

\* A request answered 404 by the lookup while the climate cache holds an
\* entry a later step could have hit.
C1_Witness ==
  /\ PipelineDone
  /\ run.loc_resp = "http_404"
  /\ DOMAIN climate_cache # {}

-----------------------------------------------------------------------------
(* C2 *)

\* C2 as claimed: every wind request ends with UnsupportedSystemType and
\* no calculator call, whatever the lookups return.
C2_WindAlwaysUnsupported ==
  (PipelineDone /\ run.request.system_type = "wind") =>
     /\ run.outcome = UnsupportedSystemType
     /\ run.calc_calls = 0

\* C2 amended: a wind request never reaches calculate_solar_output, never
\* produces a YieldResult and commits nothing; it ends with
\* UnsupportedSystemType exactly when both lookups returned a value, and
\* with a failure in every case.
C2_WindUnsupportedAfterLookups ==
  (Pipeline /\ run.request.system_type = "wind") =>
     /\ run.calc_calls = 0
     /\ run.commits = 0
     /\ run.pc # "commit_await"
     /\ run.outcome.tag \notin {"solar_output", "response"}
     /\ run.pc = "done" =>
          /\ run.outcome.tag = "http_error"
          /\ (run.outcome = UnsupportedSystemType)
               <=> (run.loc_returned /\ run.clim_returned)

\* A wind request carrying valid SolarSpecs, both lookups successful.
C2_Witness ==
  /\ PipelineDone
  /\ run.request.system_type = "wind"
  /\ run.request.system_specs = SolarDefault
  /\ run.clim_resp = "full_data"
  /\ run.outcome = UnsupportedSystemType

-----------------------------------------------------------------------------
(* C3 *)

-----------------------------------------------------------------------------
(* C4 *)

\* A call enters lookup_postcode in this step.
EntersPostcode ==
  /\ run.pc \in {"idle", "done"}
  /\ run'.entry \in {"calculate_energy", "lookup_postcode"}

\* C4: once lookup_postcode has returned a Location for a postal code, a
\* call with any string that differs from it only in letter case or spaces
\* issues no Location Lookup call, leaves the cache as it is and, called
\* directly, returns the Location the cache holds for that code.
C4_CachedLookup ==
  [][ (EntersPostcode /\ Fold(run'.postcode) \in loc_ok) =>
        /\ run'.loc_calls = 0
        /\ run'.loc_returned
        /\ postcode_cache' = postcode_cache
        /\ \E k \in DOMAIN postcode_cache :
             /\ Fold(k) = Fold(run'.postcode)
             /\ run'.entry = "lookup_postcode"
                  => run'.outcome = Return(postcode_cache[k]) ]_vars

\* A direct call with "e1 6an" is a hit on the Location a call with "E16AN"
\* stored (the upstream sent no postcode, so the Location carries the
\* string of the call that stored it).
C4_Witness ==
  /\ run.entry = "lookup_postcode"
  /\ run.pc = "done"
  /\ run.postcode = <<"e", "1", " ", "6", "a", "n">>
  /\ run.loc_calls = 0
  /\ run.outcome.tag = "return"
  /\ run.outcome.value.postcode = <<"E", "1", "6", "A", "N">>

-----------------------------------------------------------------------------
(* C5 *)

\* C5: a run calls the Location Lookup at most once and the Climate Data
\* Source at most once; a failed upstream call ends the run at once, with
\* no further upstream call.
C5_NoRetries ==
  /\ run.loc_calls <= 1
  /\ run.clim_calls <= 1
  /\ (run.loc_resp \notin {None, "success"}) =>
       (run.pc = "done" /\ run.outcome.tag \in {"http_error", "raise"}
          /\ run.loc_calls = 1 /\ run.clim_calls = 0)
  /\ (run.clim_resp \notin {None} \cup ClimDataTags) =>
       (run.pc = "done" /\ run.outcome.tag \in {"http_error", "raise"}
          /\ run.clim_calls = 1)

\* A request whose lookup succeeded upstream and whose climate call timed out.
C5_Witness ==
  /\ PipelineDone
  /\ run.loc_calls = 1
  /\ run.clim_calls = 1
  /\ run.clim_resp = "timeout"

-----------------------------------------------------------------------------
(* C6 *)

\* A call enters get_solar_climate_data with two numbers in this step.
EntersClimate ==
  /\ run.pc \in {"idle", "done", "lookup_await"}
  /\ run'.coords # <<>>
  /\ run'.coords[1] # NoneNum
  /\ run'.coords[2] # NoneNum

\* C6: once get_solar_climate_data has returned a record for a coordinate
\* pair, a call for any pair that rounds to the same two 2-decimal values
\* is a cache hit: it returns a record without calling the Climate Data
\* Source.
C6_RoundedKeyHit ==
  [][ (EntersClimate /\ Round2Pair(run'.coords) \in clim_ok) =>
        (run'.clim_calls = 0 /\ run'.clim_returned) ]_vars

-----------------------------------------------------------------------------
(* C7 *)

\* The monthly sequence the claim expects for an upstream monthly object.
ExpectedMonthly(payload) ==
  [m \in 1..12 |->
     IF month_order[m] \in DOMAIN payload THEN Val(payload[month_order[m]]) ELSE 0]

\* C7: every cached or returned ClimateRecord has 12 monthly values; when the
\* upstream sent numbers for some or all months the call succeeds and entry m
\* of the record it stores and returns is the value sent for month m, or 0
\* when that month was not sent.
C7_TwelveMonths ==
  /\ \A k \in DOMAIN climate_cache :
       Len(climate_cache[k].monthly_ghi_kwh_m2_day) = 12
  /\ (run.entry = "get_solar_climate_data" /\ run.outcome.tag = "return") =>
       Len(run.outcome.value.monthly_ghi_kwh_m2_day) = 12
  /\ run.clim_resp \in ClimDataTags =>
       /\ run.clim_returned
       /\ cache_key(run.coords[1], run.coords[2]) \in DOMAIN climate_cache
       /\ climate_cache[cache_key(run.coords[1], run.coords[2])].monthly_ghi_kwh_m2_day
            = ExpectedMonthly(run.clim_payload)
       /\ run.entry = "get_solar_climate_data" =>
            run.outcome = Return(climate_cache[cache_key(run.coords[1], run.coords[2])])

\* A direct call answered with three of the thirteen keys.
C7_Witness ==
  /\ run.entry = "get_solar_climate_data"
  /\ run.pc = "done"
  /\ run.clim_resp = "partial_data"
  /\ run.outcome.tag = "return"
  /\ run.outcome.value.monthly_ghi_kwh_m2_day
       = <<70, 0, 0, 0, 0, 510, 0, 0, 0, 0, 0, 0>>

-----------------------------------------------------------------------------
(* C8 *)

LocationInRange(location) ==
  /\ location.latitude # NoneNum
  /\ location.longitude # NoneNum
  /\ Val(location.latitude) >= -90000 /\ Val(location.latitude) <= 90000
  /\ Val(location.longitude) >= -180000 /\ Val(location.longitude) <= 180000

\* C8: every Location in the location cache, and every Location
\* lookup_postcode returns, has a latitude in [-90, 90] and a longitude in
\* [-180, 180].
C8_LocationInRange ==
  /\ \A k \in DOMAIN postcode_cache : LocationInRange(postcode_cache[k])
  /\ (run.entry = "lookup_postcode" /\ run.outcome.tag = "return") =>
       LocationInRange(run.outcome.value)

-----------------------------------------------------------------------------
(* C9 *)

-----------------------------------------------------------------------------
(* C10 *)

\* C10: whenever calculate_energy calls calculate_solar_output, for a
\* request that passed validation and with the Location and ClimateRecord
\* the resolvers returned, the call returns a SolarOutput.
C10_CalculatorNeverFails ==
  (Pipeline /\ run.calc_calls > 0) => run.calc_returned

-----------------------------------------------------------------------------
(* C11 *)

\* Irradiation of month i, kWh/m2 in units of 1e-4, as the Climate Data
\* Source sent it (a month it did not send counts 0).
SentIrradiation(payload, i) ==
  (IF month_order[i] \in DOMAIN payload THEN Val(payload[month_order[i]]) ELSE 0)
    * days_in_month[i]

-----------------------------------------------------------------------------
(* C12 *)

\* |tilt - optimal_tilt| of an application, in hundredths of a degree.
TiltDeviation == Abs(args.tilt - calculate_optimal_tilt(args.latitude))

-----------------------------------------------------------------------------
(* C13 *)

-----------------------------------------------------------------------------
(* C14 *)

\* C14: validate_postcode is idempotent on strings of every length; two
\* strings that differ only in letter case or spaces normalise to the same
\* value; the value has no lower-case letter and, when at least five
\* characters remain, exactly one space, before its last three characters;
\* "sw1a1aa" gives "SW1A 1AA".
C14_NormalizeIdempotent ==
  /\ retval.tag = "again" => retval.value = retval.first
  /\ retval.tag = "return" =>
       /\ retval.value = retval.of_variant
       /\ StripUpper(retval.value) = StripUpper(args.v)
       /\ LET n == Len(retval.value)
          IN  IF Len(StripUpper(args.v)) >= 5
                THEN /\ retval.value[n - 3] = " "
                     /\ \A i \in 1..n : retval.value[i] = " " => i = n - 3
                ELSE \A i \in 1..n : retval.value[i] # " "
       /\ Fold(args.v) = <<"s", "w", "1", "a", "1", "a", "a">> =>
            retval.value = <<"S", "W", "1", "A", " ", "1", "A", "A">>

\* "sw1a1aa" normalised twice, next to a variant with other spaces and case.
C14_Witness ==
  /\ retval.tag = "again"
  /\ args.v = <<"s", "w", "1", "a", "1", "a", "a">>
  /\ args.w # args.v
  /\ retval.value = <<"S", "W", "1", "A", " ", "1", "A", "A">>

-----------------------------------------------------------------------------
(* C15 *)

\* Every task runs resolver fn and checked its cache before any task stored.
AllCheckedBeforeStore(fn) ==
  \A t \in Tasks : tasks[t].pc # "idle" /\ tasks[t].fn = fn /\ tasks[t].early

Stored(t) == tasks[t].pc = "done" /\ tasks[t].outcome.tag = "return"

\* The entry the cache of resolver fn holds under the key of task t.
EntryOf(fn, t) ==
  IF fn = "lookup_postcode"
    THEN postcode_cache[StripUpper(tasks[t].postcode)]
    ELSE climate_cache[cache_key(tasks[t].coords[1], tasks[t].coords[2])]

\* C15: when the NumTasks calls for one cache key all check the cache before
\* any of them stores, each issues its own upstream call, the entry is
\* written once per call that succeeded, and the entry held is the value of
\* the call that completed last.
C15_MissesNotDeduplicated ==
  \A fn \in Resolvers :
    AllCheckedBeforeStore(fn) =>
      /\ \A t \in Tasks : tasks[t].calls = 1
      /\ writes[fn].count = Cardinality({t \in Tasks : Stored(t)})
      /\ writes[fn].count > 0 =>
           /\ Stored(writes[fn].last)
           /\ EntryOf(fn, writes[fn].last) = tasks[writes[fn].last].outcome.value

\* All tasks missed the climate cache for one key and completed; the entry
\* was written NumTasks times and a caller holds a value that differs from
\* the entry.
C15_Witness ==
  /\ AllCheckedBeforeStore("get_solar_climate_data")
  /\ \A t \in Tasks : Stored(t)
  /\ writes["get_solar_climate_data"].count = NumTasks
  /\ \E t \in Tasks :
       tasks[t].outcome.value # EntryOf("get_solar_climate_data", t)

-----------------------------------------------------------------------------
(* C16 *)

\* A step that enters a resolver (and is not the passing of time).
CallsLookup == EntersPostcode /\ run' # run /\ now' = now
CallsClimate == EntersClimate /\ run' # run /\ now' = now

\* C16: a key once stored in the location cache or the climate cache stays
\* in it through every later step, whatever the clock shows, and a call for
\* a stored key is a hit: it issues no upstream call and returns.
C16_NeverExpires ==
  [][ /\ DOMAIN postcode_cache \subseteq DOMAIN postcode_cache'
      /\ DOMAIN climate_cache \subseteq DOMAIN climate_cache'
      /\ (CallsLookup /\ StripUpper(run'.postcode) \in DOMAIN postcode_cache) =>
           (run'.loc_calls = 0 /\ run'.loc_returned)
      /\ (CallsClimate /\ cache_key(run'.coords[1], run'.coords[2]) \in DOMAIN climate_cache) =>
           (run'.clim_calls = 0 /\ run'.clim_returned) ]_vars

\* Both caches hold an entry older than both TTLs, and a direct lookup of
\* the postcode stored 180 days ago was a hit.
C16_Witness ==
  /\ run.entry = "lookup_postcode"
  /\ run.pc = "done"
  /\ run.loc_calls = 0
  /\ run.outcome.tag = "return"
  /\ now - stored_at.loc[StripUpper(run.postcode)] > cache_ttl_postcode
  /\ \E k \in DOMAIN climate_cache : now - stored_at.clim[k] > cache_ttl_postcode

-----------------------------------------------------------------------------
(* C17 *)

\* A step in which lookup_postcode, or get_solar_climate_data, ends in a
\* failure after its upstream call; a step in which get_solar_climate_data
\* is entered and fails before any upstream call.
LookupFails == run.pc = "lookup_await" /\ ~run'.loc_returned
ClimateFails == run.pc = "climate_await" /\ ~run'.clim_returned
ClimateFailsAtOnce ==
  /\ run.pc # "climate_await"
  /\ run' # run
  /\ run'.coords # <<>>
  /\ run'.pc = "done"
  /\ ~run'.clim_returned

\* C17: a resolver call that ends in a failure leaves both caches as they
\* were (a climate failure in the step that completed the location lookup
\* leaves the climate cache as it was); the key it asked for is not in the
\* cache afterwards, and a call for a key that is not in the cache calls
\* the upstream.
C17_FailuresNotCached ==
  [][ /\ LookupFails =>
           /\ postcode_cache' = postcode_cache
           /\ climate_cache' = climate_cache
           /\ StripUpper(run.postcode) \notin DOMAIN postcode_cache'
      /\ ClimateFails =>
           /\ postcode_cache' = postcode_cache
           /\ climate_cache' = climate_cache
           /\ cache_key(run.coords[1], run.coords[2]) \notin DOMAIN climate_cache'
      /\ ClimateFailsAtOnce => climate_cache' = climate_cache
      /\ (EntersPostcode /\ StripUpper(run'.postcode) \notin DOMAIN postcode_cache) =>
           run'.loc_calls = 1
      /\ (EntersClimate /\ cache_key(run'.coords[1], run'.coords[2]) \notin DOMAIN climate_cache) =>
           run'.clim_calls = 1 ]_vars

\* A lookup that was answered not-found a moment ago is answered by the
\* upstream again, now with a parse error, while the cache holds other keys.
C17_Witness ==
  /\ run.entry = "lookup_postcode"
  /\ run.pc = "done"
  /\ run.loc_calls = 1
  /\ run.loc_resp = "invalid_json"
  /\ StripUpper(run.postcode) \notin DOMAIN postcode_cache
  /\ DOMAIN postcode_cache # {}
  /\ DOMAIN climate_cache # {}

-----------------------------------------------------------------------------
(* C18 *)

\* The steps a run of calculate_energy has reached, each only after the one
\* before it returned; at most one commit, and one exactly when the request
\* is answered with a response.
StepsInOrder ==
  Pipeline =>
    /\ run.coords # <<>> => run.loc_returned
    /\ run.calc_calls > 0 => (run.loc_returned /\ run.clim_returned)
    /\ (run.pc = "commit_await" \/ run.commits > 0) =>
         (run.loc_returned /\ run.clim_returned /\ run.calc_returned)
    /\ run.calc_calls <= 1
    /\ run.commits <= 1
    /\ run.pc = "done" => (run.commits = 1 <=> run.outcome.tag = "response")
    /\ run.pc # "done" => run.commits = 0

\* A row is added only by the commit of a run whose three earlier steps
\* returned, one row, in the step that answers the request with a response;
\* a step that ends a run in an error adds none.
PersistsOnSuccess ==
  /\ db_rows' # db_rows =>
       /\ db_rows' = db_rows + 1
       /\ run.pc = "commit_await"
       /\ run.loc_returned /\ run.clim_returned /\ run.calc_returned
       /\ run'.outcome.tag = "response"
  /\ (run' # run /\ run'.pc = "done" /\ run'.entry = "calculate_energy") =>
       IF run'.outcome.tag = "response"
         THEN db_rows' = db_rows + 1
         ELSE db_rows' = db_rows

-----------------------------------------------------------------------------
(* C19 *)

\* What calculate_energy computes for a postcode and SolarSpecs when both
\* caches are empty: every resolver call goes to its upstream.
FromEmptyCaches(postcode, specs) ==
  LET found == PostcodeResult(postcode, upstream.loc[StripUpper(postcode)])
  IN  IF found.tag = "raise" THEN found
      ELSE LET location == found.value
               climate == ClimateResult(location.latitude, location.longitude,
                                        upstream.clim[Val(location.longitude)])
           IN  IF climate.tag = "raise" THEN climate
               ELSE calculate_solar_output(
                      specs.capacity_kwp, climate.value, Val(location.latitude),
                      specs.panel_orientation, specs.panel_tilt_degrees,
                      specs.shading_factor, specs.inverter_efficiency)

\* The request just answered got the SolarOutput it would get from empty caches.
SameAsFromEmptyCaches ==
  (PipelineDone /\ run.outcome.tag = "response") =>
     FromEmptyCaches(run.postcode, run.request.system_specs)
       = Return(run.outcome.results)

\* The Climate Data Source answers alike for longitudes that format alike.
SameAnswerPerKey ==
  \A l1, l2 \in Longitudes :
    FormatCoord(l1) = FormatCoord(l2) => upstream.clim[l1] = upstream.clim[l2]

\* C19 as claimed: with deterministic upstreams, the SolarOutput of a
\* request served with caches filled by earlier requests equals the one it
\* gets from empty caches.
C19_IndependentOfHistory == SameAsFromEmptyCaches

\* C19 as amended: the same, provided the Climate Data Source gives the same
\* answer for all coordinates that share a cache key.
C19_IndependentPerKey == SameAnswerPerKey => SameAsFromEmptyCaches

\* A request answered from a climate record that an earlier request for
\* another postcode stored, under an upstream that answers alike per key.
C19_Witness ==
  /\ SameAnswerPerKey
  /\ PipelineDone
  /\ run.outcome.tag = "response"
  /\ run.loc_calls = 1
  /\ run.clim_calls = 0
  /\ Cardinality(DOMAIN postcode_cache) = 2

====
